---- MODULE Spec2Model ----
(***************************************************************************)
(* Model of the node interaction controller of PlanetNodesPanel            *)
(* (src/src/components/PlanetSheet.tsx): edit-mode toggle, native          *)
(* touchstart listener, pointer-down handler, node-dot click (remove /     *)
(* credit-gated toggle) and reset, for one planet whose number is bound    *)
(* (the image surface and the node dots are rendered).                     *)
(*                                                                         *)
(* Store.  useGameStore is outside this file; savePlanet, incCredits and   *)
(* showToast are modelled from their specified contract: synchronous,      *)
(* atomic, savePlanet merges the patch, incCredits adds the delta.         *)
(*                                                                         *)
(* Rendering.  Handlers run to completion one event at a time, and the     *)
(* component re-renders after every store or state change before the next  *)
(* event is dispatched, so each handler sees the current points / active   *)
(* and the refs hold the values of the last render.                        *)
(*                                                                         *)
(* Numbers.  Normalised coordinates are JavaScript doubles; they are       *)
(* modelled as fixed-point hundredths (x = 0.52 is the integer 52) plus    *)
(* the three non-finite doubles a division by a zero-sized rectangle       *)
(* produces.  A coordinate is a record [fin, v]: fin = TRUE and v the      *)
(* number of hundredths, or fin = FALSE and v = 0 (NaN), 1 (+Infinity),    *)
(* -1 (-Infinity).  Taps and rectangles are drawn from sets for which      *)
(* every division and every pixel product is exact in hundredths.          *)
(*                                                                         *)
(* Time.  Date.now() is the variable now; it starts at T0 (any value at    *)
(* least 600, lastTouchRef starting at 0) and advances between events by   *)
(* 599 or 600 ms, the two sides of the dedup window.                       *)
(***************************************************************************)
EXTENDS Integers, Sequences, FiniteSets, TLC

VARIABLES
    nodePoints,     \* store.planets[planetId].nodePoints
    nodeActive,     \* store.planets[planetId].nodeActive
    owner,          \* store.planets[planetId].owner
    credits,        \* store.credits
    currentEmpire,  \* store.getCurrentEmpire()
    toast,          \* what the last handler passed to store.showToast, "" if nothing
    editMode,       \* useState(false)
    notice,         \* useState('')
    lastTouchRef,   \* useRef(0)
    pointsRef,      \* React.useRef(points)
    activeRef,      \* React.useRef(active)
    editRef,        \* React.useRef(editMode)
    now,            \* Date.now()
    lastOp,         \* history: the last handler that ran
    gesture         \* history: the last one or two input events at one location

progVars == <<nodePoints, nodeActive, owner, credits, currentEmpire, toast,
              editMode, notice, lastTouchRef, pointsRef, activeRef, editRef>>
vars == <<nodePoints, nodeActive, owner, credits, currentEmpire, toast,
          editMode, notice, lastTouchRef, pointsRef, activeRef, editRef,
          now, lastOp, gesture>>

----------------------------------------------------------------------------
(* Bounds of the model *)

MaxPoints == 2
MaxCredits == 1
T0 == 1000
MaxNow == T0 + 600

(* Program constants *)

R == 22
MinDistHundredths == 3
DedupWindow == 600

----------------------------------------------------------------------------
(* Floating-point values *)

Fin(n) == [fin |-> TRUE, v |-> n]
NaN == [fin |-> FALSE, v |-> 0]
Inf(s) == [fin |-> FALSE, v |-> s]

Sign(n) == IF n > 0 THEN 1 ELSE IF n < 0 THEN -1 ELSE 0

\* (c - origin) / size, as a double in hundredths
Div(n, d) ==
    IF d = 0 THEN (IF n = 0 THEN NaN ELSE Inf(Sign(n)))
    ELSE Fin((n * 100) \div d)

\* a - b
Sub(a, b) ==
    IF a.fin /\ b.fin THEN Fin(a.v - b.v)
    ELSE IF a.fin THEN (IF b.v = 0 THEN NaN ELSE Inf(-b.v))
    ELSE IF b.fin THEN a
    ELSE IF a.v = 0 \/ b.v = 0 \/ a.v = b.v THEN NaN
    ELSE a

\* a * size: a normalised difference times a pixel length, in pixels
Mul(a, size) ==
    IF a.fin THEN Fin((a.v * size) \div 100)
    ELSE IF size = 0 THEN NaN
    ELSE a

\* x >= 0 && x <= 1
InUnit(a) == a.fin /\ a.v >= 0 /\ a.v <= 100

\* Math.sqrt(dx * dx + dy * dy) < 0.03
CloserThanMin(dx, dy) ==
    dx.fin /\ dy.fin
    /\ dx.v * dx.v + dy.v * dy.v < MinDistHundredths * MinDistHundredths

\* variant: the radius is not squared
WithinRadius_unsquared(hdx, hdy) ==
    hdx.fin /\ hdy.fin /\ hdx.v * hdx.v + hdy.v * hdy.v <= R

\* hdx * hdx + hdy * hdy <= R * R
WithinRadius(hdx, hdy) ==
    hdx.fin /\ hdy.fin /\ hdx.v * hdx.v + hdy.v * hdy.v <= R * R

----------------------------------------------------------------------------
(* Inputs *)

EmpireIds == {"primus", "xilnah", "navui", "tora", "miradu"}
NoEmpire == "null"

isEmpireId(v) ==
    v = "primus" \/ v = "xilnah" \/ v = "navui" \/ v = "tora" \/ v = "miradu"

Owners == {"primus", "free"}
CurrentEmpires == {NoEmpire, "xilnah"}
LedgerEmpires == {"primus", "xilnah"}

Big == [left |-> 0, top |-> 0, width |-> 2000, height |-> 2000]
Small == [left |-> 980, top |-> 1005, width |-> 100, height |-> 100]
Zero == [left |-> 980, top |-> 980, width |-> 0, height |-> 0]
Rects == {Big, Small, Zero}

Taps == { [x |-> 1000, y |-> 1000], [x |-> 1040, y |-> 1040] }

Exact(n, d) == d = 0 \/ ((n * 100) % d = 0 /\ d % 100 = 0)

\* the (tap, rectangle) pairs whose arithmetic is exact in hundredths
TapInputs ==
    { tr \in Taps \X Rects :
        /\ Exact(tr[1].x - tr[2].left, tr[2].width)
        /\ Exact(tr[1].y - tr[2].top, tr[2].height) }

NoTap == [x |-> 0, y |-> 0]
NoGesture ==
    [phase |-> "idle", first |-> "none", tap |-> NoTap, far |-> FALSE,
     len0 |-> 0, len1 |-> 0, len2 |-> 0, t0 |-> 0, t1 |-> 0]

----------------------------------------------------------------------------
(* The store *)

\* store.savePlanet(planetId, patch): merges the patch into the planet
savePlanet(patch) ==
    /\ nodePoints' = IF "nodePoints" \in DOMAIN patch
                       THEN patch.nodePoints ELSE nodePoints
    /\ nodeActive' = IF "nodeActive" \in DOMAIN patch
                       THEN patch.nodeActive ELSE nodeActive

\* store.incCredits(empire, delta)
incCredits(e, delta) ==
    credits' = IF e \in DOMAIN credits
                 THEN [credits EXCEPT ![e] = @ + delta]
                 ELSE (e :> delta) @@ credits

\* store.showToast(message)
showToast(m) == toast' = m

\* the handler returns without calling store.showToast
noToast == toast' = ""

----------------------------------------------------------------------------
(* The component *)

points == nodePoints
active == nodeActive

\* the refs are re-assigned on every render, and every store or state change
\* renders before the next event is dispatched
Render ==
    /\ pointsRef' = nodePoints'
    /\ activeRef' = nodeActive'
    /\ editRef' = editMode'

\* variant: the last element is dropped, whatever the index
RemoveAt_dropLast(s, idx) == [i \in 1..(Len(s) - 1) |-> s[i]]

\* s.filter((_, i) => i !== idx)
RemoveAt(s, idx) == [i \in 1..(Len(s) - 1) |-> IF i < idx THEN s[i] ELSE s[i + 1]]

Init ==
    /\ nodePoints = << >>
    /\ nodeActive = << >>
    /\ owner \in Owners
    /\ credits = [e \in LedgerEmpires |-> MaxCredits]
    /\ currentEmpire \in CurrentEmpires
    \* an owned planet is looked at while some empire is the current one
    /\ isEmpireId(owner) => currentEmpire # NoEmpire
    /\ toast = ""
    /\ editMode = FALSE
    /\ notice = ""
    /\ lastTouchRef = 0
    /\ pointsRef = << >>
    /\ activeRef = << >>
    /\ editRef = FALSE
    /\ now = T0
    /\ lastOp = "init"
    /\ gesture = NoGesture

toggleEditMode ==
    /\ editMode' = ~editMode
    /\ UNCHANGED <<nodePoints, nodeActive, owner, credits, currentEmpire,
                   notice, lastTouchRef>>
    /\ noToast
    /\ Render

ToggleEditClick ==
    /\ toggleEditMode
    /\ lastOp' = "toggleEditMode"
    /\ gesture' = NoGesture
    /\ UNCHANGED now

\* variant: the current empire is charged before the owner
payEmpire_currentFirst ==
    IF currentEmpire # NoEmpire THEN currentEmpire
    ELSE IF isEmpireId(owner) THEN owner ELSE NoEmpire

\* const payEmpire = isEmpireId(owner) ? owner : (currentEmpire ?? null)
payEmpire ==
    IF isEmpireId(owner) THEN owner ELSE currentEmpire

\* variant: the missing-empire test is skipped
noPayEmpire_never == FALSE

\* !payEmpire
noPayEmpire == payEmpire = NoEmpire

\* store.credits[payEmpire] ?? 0
creditsOfPayer ==
    IF payEmpire \in DOMAIN credits THEN credits[payEmpire] ELSE 0

\* variant: credits < 0
insufficient_offByOne == creditsOfPayer < 0

\* credits < 1
insufficient == creditsOfPayer < 1

\* variant: the notice without the toast
denyInsufficient_noToast ==
    /\ notice' = "No hay creditos suficientes para activar este nodo."
    /\ noToast

\* setNotice(...); store.showToast(...); return
denyInsufficient ==
    /\ notice' = "No hay creditos suficientes para activar este nodo."
    /\ showToast("No tienes creditos suficientes")

\* variant: no debit
chargeActivation_free == UNCHANGED credits

\* store.incCredits(payEmpire, -1)
chargeActivation == incCredits(payEmpire, -1)

\* variant: every flag takes the new value
nextFlags_all(idx, nextValue) ==
    [i \in 1..Len(points) |-> nextValue]

\* points.map((_, i) => (i === idx ? nextValue : Boolean(active[i])))
nextFlags(idx, nextValue) ==
    [i \in 1..Len(points) |-> IF i = idx THEN nextValue ELSE active[i]]

toggleActive(idx) ==
    LET currently == active[idx]
        nextValue == ~currently
        next == nextFlags(idx, nextValue)
    IN  IF nextValue /\ noPayEmpire
        THEN /\ notice' = "No hay un imperio activo para aplicar el coste del nodo."
             /\ noToast
             /\ UNCHANGED <<nodePoints, nodeActive, credits>>
        ELSE IF nextValue /\ insufficient
        THEN /\ denyInsufficient
             /\ UNCHANGED <<nodePoints, nodeActive, credits>>
        ELSE /\ IF nextValue THEN chargeActivation ELSE UNCHANGED credits
             /\ notice' = ""
             /\ savePlanet([nodeActive |-> next])
             /\ noToast

tooClose(x, y) ==
    \E i \in 1..Len(points) :
        CloserThanMin(Sub(points[i].x, x), Sub(points[i].y, y))

\* variant: the new point and its flag are put in front
placePointAtClient_prepend(clientX, clientY, rect) ==
    LET x == Div(clientX - rect.left, rect.width)
        y == Div(clientY - rect.top, rect.height)
    IN  IF ~(InUnit(x) /\ InUnit(y))
        THEN UNCHANGED <<nodePoints, nodeActive>>
        ELSE IF tooClose(x, y)
        THEN UNCHANGED <<nodePoints, nodeActive>>
        ELSE savePlanet([nodePoints |-> <<[x |-> x, y |-> y]>> \o points,
                         nodeActive |-> <<FALSE>> \o active])

placePointAtClient(clientX, clientY, rect) ==
    LET x == Div(clientX - rect.left, rect.width)
        y == Div(clientY - rect.top, rect.height)
    IN  IF ~(InUnit(x) /\ InUnit(y))
        THEN UNCHANGED <<nodePoints, nodeActive>>
        ELSE IF tooClose(x, y)
        THEN UNCHANGED <<nodePoints, nodeActive>>
        ELSE savePlanet([nodePoints |-> Append(points, [x |-> x, y |-> y]),
                         nodeActive |-> Append(active, FALSE)])

\* variant: the window includes its end
recentTouch_inclusive == now - lastTouchRef <= DedupWindow

\* Date.now() - lastTouchRef.current < 600
recentTouch == now - lastTouchRef < DedupWindow

\* variant: without the lastTouchRef test
addPointFromPointer_noDedup(tap, rect, onDot) ==
    /\ IF ~editMode THEN UNCHANGED <<nodePoints, nodeActive>>
       ELSE IF onDot THEN UNCHANGED <<nodePoints, nodeActive>>
       ELSE placePointAtClient(tap.x, tap.y, rect)
    /\ UNCHANGED <<owner, credits, currentEmpire, editMode, notice,
                   lastTouchRef>>
    /\ noToast
    /\ Render

\* onDot: the event target is inside a rendered .node-dot
addPointFromPointer(tap, rect, onDot) ==
    /\ IF ~editMode THEN UNCHANGED <<nodePoints, nodeActive>>
       ELSE IF onDot THEN UNCHANGED <<nodePoints, nodeActive>>
       ELSE IF recentTouch THEN UNCHANGED <<nodePoints, nodeActive>>
       ELSE placePointAtClient(tap.x, tap.y, rect)
    /\ UNCHANGED <<owner, credits, currentEmpire, editMode, notice,
                   lastTouchRef>>
    /\ noToast
    /\ Render

\* variant: the loop runs on to the last match
hitIndex_last(currentPoints, nx, ny, rect) ==
    LET hits == { i \in 1..Len(currentPoints) :
                    WithinRadius(Mul(Sub(currentPoints[i].x, nx), rect.width),
                                 Mul(Sub(currentPoints[i].y, ny), rect.height)) }
    IN  IF hits = {} THEN 0 ELSE CHOOSE i \in hits : \A j \in hits : i >= j

\* the index the hit-test loop stops at, 0 when it finds none
hitIndex(currentPoints, nx, ny, rect) ==
    LET hits == { i \in 1..Len(currentPoints) :
                    WithinRadius(Mul(Sub(currentPoints[i].x, nx), rect.width),
                                 Mul(Sub(currentPoints[i].y, ny), rect.height)) }
    IN  IF hits = {} THEN 0 ELSE CHOOSE i \in hits : \A j \in hits : i <= j

\* variant: the timestamp is recorded before the edit-mode test
touchIgnored_stamped ==
    /\ lastTouchRef' = now
    /\ UNCHANGED <<nodePoints, nodeActive>>

\* if (!editRef.current) return;
touchIgnored == UNCHANGED <<nodePoints, nodeActive, lastTouchRef>>

onTouchStart(tap, rect) ==
    /\ IF ~editRef
       THEN touchIgnored
       ELSE /\ lastTouchRef' = now
            /\ LET nx == Div(tap.x - rect.left, rect.width)
                   ny == Div(tap.y - rect.top, rect.height)
                   currentPoints == pointsRef
                   currentActive == activeRef
                   hit == hitIndex(currentPoints, nx, ny, rect)
               IN  IF hit >= 1
                   THEN savePlanet([nodePoints |-> RemoveAt(currentPoints, hit),
                                    nodeActive |-> RemoveAt(currentActive, hit)])
                   ELSE savePlanet([nodePoints |-> Append(currentPoints, [x |-> nx, y |-> ny]),
                                    nodeActive |-> Append(currentActive, FALSE)])
    /\ UNCHANGED <<owner, credits, currentEmpire, editMode, notice>>
    /\ noToast
    /\ Render

\* variant: nodeActive is left as it is
removePoint_pointsOnly(idx) ==
    savePlanet([nodePoints |-> RemoveAt(points, idx)])

removePoint(idx) ==
    savePlanet([nodePoints |-> RemoveAt(points, idx),
                nodeActive |-> RemoveAt(active, idx)])

\* variant: only the points are cleared
resetPoints_pointsOnly ==
    savePlanet([nodePoints |-> << >>])

resetPoints ==
    savePlanet([nodePoints |-> << >>, nodeActive |-> << >>])

\* variant: removing an active node gives the credit back
onClickDot_refund(idx) ==
    /\ IF editMode
       THEN /\ removePoint(idx) /\ noToast /\ UNCHANGED notice
            /\ IF active[idx] /\ ~noPayEmpire
               THEN incCredits(payEmpire, 1) ELSE UNCHANGED credits
       ELSE toggleActive(idx)
    /\ UNCHANGED <<owner, currentEmpire, editMode, lastTouchRef>>
    /\ Render

\* onClick of the idx-th rendered .node-dot
onClickDot(idx) ==
    /\ IF editMode
       THEN removePoint(idx) /\ noToast /\ UNCHANGED <<credits, notice>>
       ELSE toggleActive(idx)
    /\ UNCHANGED <<owner, currentEmpire, editMode, lastTouchRef>>
    /\ Render

----------------------------------------------------------------------------
(* Events: a handler, plus the history variables *)

\* the tap maps into the unit square, 0.03 or more from every stored point
farTap(tap, rect) ==
    LET x == Div(tap.x - rect.left, rect.width)
        y == Div(tap.y - rect.top, rect.height)
    IN  InUnit(x) /\ InUnit(y) /\ ~tooClose(x, y)

\* history of the input events delivered in edit mode: an event of the other
\* kind at the same client position as the previous event completes a
\* two-event gesture.  len0, len1, len2: the number of points before the first
\* event, after it, and after the second; t0, t1: the times of the two events;
\* far: farTap of the latest event
gestureAfter(kind, tap, rect) ==
    IF ~editMode THEN NoGesture
    ELSE IF gesture.phase = "half" /\ gesture.first # kind /\ gesture.tap = tap
    THEN [gesture EXCEPT !.phase = "done", !.far = farTap(tap, rect),
                         !.len2 = Len(nodePoints'), !.t1 = now]
    ELSE [phase |-> "half", first |-> kind, tap |-> tap, far |-> farTap(tap, rect),
          len0 |-> Len(nodePoints), len1 |-> Len(nodePoints'), len2 |-> 0,
          t0 |-> now, t1 |-> 0]

TouchStart ==
    \E tr \in TapInputs :
        /\ onTouchStart(tr[1], tr[2])
        /\ Len(nodePoints') <= MaxPoints
        /\ lastOp' = "touch"
        /\ gesture' = gestureAfter("touch", tr[1], tr[2])
        /\ UNCHANGED now

PointerDown ==
    \E tr \in TapInputs, onDot \in BOOLEAN :
        /\ onDot => Len(points) > 0
        /\ addPointFromPointer(tr[1], tr[2], onDot)
        /\ Len(nodePoints') <= MaxPoints
        /\ lastOp' = "pointer"
        /\ gesture' = gestureAfter("pointer", tr[1], tr[2])
        /\ UNCHANGED now

DotClick ==
    \E idx \in 1..Len(points) :
        /\ onClickDot(idx)
        /\ lastOp' = IF editMode THEN "removePoint" ELSE "toggleActive"
        /\ gesture' = NoGesture
        /\ UNCHANGED now

\* the reset button is rendered only in edit mode
ResetClick ==
    /\ editMode
    /\ resetPoints
    /\ UNCHANGED <<owner, credits, currentEmpire, editMode, notice,
                   lastTouchRef>>
    /\ noToast
    /\ Render
    /\ lastOp' = "resetPoints"
    /\ gesture' = [NoGesture EXCEPT !.len0 = Len(nodePoints)]
    /\ UNCHANGED now

\* time passes between events
Tick ==
    \E d \in {DedupWindow - 1, DedupWindow} :
        /\ now + d <= MaxNow
        /\ now' = now + d
        /\ UNCHANGED <<progVars, lastOp, gesture>>

Next ==
    \/ ToggleEditClick
    \/ TouchStart
    \/ PointerDown
    \/ DotClick
    \/ ResetClick
    \/ Tick

Spec == Init /\ [][Next]_vars

----------------------------------------------------------------------------
(* Properties *)

Indices == 1..Len(nodeActive)

\* the faction the Credit Gate is specified to charge
PayingFaction == IF owner \in EmpireIds THEN owner ELSE currentEmpire

BalanceOf(f) == IF f \in DOMAIN credits THEN credits[f] ELSE 0

\* a view-mode marker tap on index i
ViewTap(i) == ~editMode /\ onClickDot(i)

NoTwoClose(pts) ==
    \A i, j \in 1..Len(pts) :
        i # j => ~CloserThanMin(Sub(pts[i].x, pts[j].x), Sub(pts[i].y, pts[j].y))

\* C1: in every reachable state the points sequence and the active-flag
\* sequence have the same length
C1_SameLength == Len(nodePoints) = Len(nodeActive)

\* C1 witness: a denied activation has just run on a non-empty set
C1_Witness ==
    /\ lastOp = "toggleActive" /\ notice # ""
    /\ Len(nodePoints) = MaxPoints

\* C2: every step that creates a point leaves no two points of the set at
\* Euclidean distance below 0.03 (so a tap closer than 0.03 to an existing
\* point creates nothing)
C2_NoTwoCloseAfterCreation ==
    [][Len(nodePoints') = Len(nodePoints) + 1 => NoTwoClose(nodePoints')]_vars

\* C3: every stored point has both coordinates in [0,1]
C3_PointsInUnitSquare ==
    \A i \in 1..Len(nodePoints) : InUnit(nodePoints[i].x) /\ InUnit(nodePoints[i].y)

\* C4: a native-touch event that created a point, followed less than 600 ms
\* later by a pointer event at the same location, leaves exactly one point
\* more than before the touch event
C4_TouchThenPointerOnePoint ==
    ( /\ gesture.phase = "done" /\ gesture.first = "touch"
      /\ gesture.len1 = gesture.len0 + 1
      /\ gesture.t1 - gesture.t0 < DedupWindow )
    => gesture.len2 = gesture.len0 + 1

\* C4 witness: the pointer event arrived 599 ms after a creating touch event
C4_Witness ==
    /\ gesture.phase = "done" /\ gesture.first = "touch"
    /\ gesture.len1 = gesture.len0 + 1
    /\ gesture.t1 - gesture.t0 = DedupWindow - 1
    /\ lastOp = "pointer"

\* C5: when one gesture in edit mode delivers a pointer event and a
\* native-touch event at the same location, in either order, at most one of
\* the two handlers changes the point set
C5_AtMostOneHandlerMutates ==
    ( /\ gesture.phase = "done"
      /\ gesture.t1 - gesture.t0 < DedupWindow )
    => ~(gesture.len1 # gesture.len0 /\ gesture.len2 # gesture.len1)

\* C6: a view-mode marker tap on an inactive node whose paying faction has
\* balance b >= 1 sets the flag and leaves that balance at b - 1; on an
\* active node it clears the flag and changes no balance
C6_ActivateDebitsOnceDeactivateFree ==
    [][\A i \in Indices :
         ViewTap(i) =>
           /\ (~nodeActive[i] /\ PayingFaction # NoEmpire /\ BalanceOf(PayingFaction) >= 1)
                => /\ nodeActive'[i]
                   /\ BalanceOf(PayingFaction)' = BalanceOf(PayingFaction) - 1
           /\ nodeActive[i] => (~nodeActive'[i] /\ credits' = credits)]_vars

\* C6 witness: a node was activated and deactivated again, the debit stays
C6_Witness ==
    /\ lastOp = "toggleActive" /\ notice = ""
    /\ Len(nodeActive) >= 1 /\ \A i \in Indices : ~nodeActive[i]
    /\ PayingFaction # NoEmpire
    /\ BalanceOf(PayingFaction) = MaxCredits - 1

\* C7: a view-mode marker tap on an inactive node whose paying faction has
\* balance 0 leaves the flag false, the balances and both sequences unchanged,
\* and raises the notice and the toast
C7_InsufficientCreditsDenied ==
    [][\A i \in Indices :
         (ViewTap(i) /\ ~nodeActive[i] /\ PayingFaction # NoEmpire
            /\ BalanceOf(PayingFaction) = 0)
         => /\ nodeActive' = nodeActive /\ nodePoints' = nodePoints
            /\ credits' = credits
            /\ notice' = "No hay creditos suficientes para activar este nodo."
            /\ toast' = "No tienes creditos suficientes"]_vars

\* C7 witness: a tap was denied for lack of credits
C7_Witness ==
    /\ lastOp = "toggleActive"
    /\ notice = "No hay creditos suficientes para activar este nodo."
    /\ toast = "No tienes creditos suficientes"
    /\ PayingFaction # NoEmpire /\ BalanceOf(PayingFaction) = 0
    /\ \E i \in Indices : ~nodeActive[i]

\* C8: every faction's credit balance is a non-negative integer
C8_BalancesNonNegative ==
    \A f \in DOMAIN credits : credits[f] \in Nat

\* C8 witness: an activation has debited the paying faction down to 0
C8_Witness ==
    /\ lastOp = "toggleActive" /\ notice = ""
    /\ \E i \in Indices : nodeActive[i]
    /\ PayingFaction # NoEmpire /\ BalanceOf(PayingFaction) = 0

\* C9: on a false-to-true marker tap the balance that is checked and debited
\* is the owner's when the owner is a known faction, else the current
\* faction's; no other balance changes
C9_OwnerPaysElseCurrent ==
    [][\A i \in Indices :
         (ViewTap(i) /\ ~nodeActive[i]) =>
           /\ nodeActive'[i] <=> (PayingFaction # NoEmpire /\ BalanceOf(PayingFaction) >= 1)
           /\ nodeActive'[i] => credits' = [credits EXCEPT ![PayingFaction] = @ - 1]
           /\ ~nodeActive'[i] => credits' = credits]_vars

\* C9 witness: the owner is a known faction, another faction is current, and
\* the owner's last credit paid for an activation
C9_Witness ==
    /\ lastOp = "toggleActive" /\ notice = ""
    /\ owner \in EmpireIds /\ currentEmpire \in EmpireIds /\ currentEmpire # owner
    /\ \E i \in Indices : nodeActive[i]
    /\ credits[owner] = 0 /\ credits[currentEmpire] = MaxCredits

\* C10: a false-to-true marker tap on an entity whose owner is no known
\* faction, with no current faction, is denied: flags, balances and both
\* sequences unchanged, and the notice raised
C10_NoPayingFactionDenied ==
    [][\A i \in Indices :
         (ViewTap(i) /\ ~nodeActive[i] /\ owner \notin EmpireIds
            /\ currentEmpire = NoEmpire)
         => /\ nodeActive' = nodeActive /\ nodePoints' = nodePoints
            /\ credits' = credits
            /\ notice' = "No hay un imperio activo para aplicar el coste del nodo."]_vars

\* C10 witness: a tap was denied because no faction could be charged
C10_Witness ==
    /\ lastOp = "toggleActive"
    /\ notice = "No hay un imperio activo para aplicar el coste del nodo."
    /\ owner \notin EmpireIds /\ currentEmpire = NoEmpire
    /\ \E i \in Indices : ~nodeActive[i]

\* a native-touch event / a pointer event with input tr = <<tap, rectangle>>
TouchStep(tr) ==
    /\ lastOp' = "touch"
    /\ gesture' = gestureAfter("touch", tr[1], tr[2])
    /\ onTouchStart(tr[1], tr[2])

PointerStep(tr, onDot) ==
    /\ lastOp' = "pointer"
    /\ gesture' = gestureAfter("pointer", tr[1], tr[2])
    /\ onDot => Len(points) > 0
    /\ addPointFromPointer(tr[1], tr[2], onDot)

\* point p, drawn on the rectangle, lies within R pixels of the tap
PixelNear(p, tap, rect) ==
    /\ p.x.fin /\ p.y.fin /\ rect.width > 0 /\ rect.height > 0
    /\ LET px == rect.left + (p.x.v * rect.width) \div 100
           py == rect.top + (p.y.v * rect.height) \div 100
       IN  (px - tap.x) * (px - tap.x) + (py - tap.y) * (py - tap.y) <= R * R

NearSet(tr) == { i \in 1..Len(nodePoints) : PixelNear(nodePoints[i], tr[1], tr[2]) }

ShiftedOut(old, new, i) ==
    /\ Len(new) = Len(old) - 1
    /\ \A j \in 1..Len(old) :
          /\ j < i => new[j] = old[j]
          /\ j > i => new[j - 1] = old[j]

\* C12: removing index i, by an edit-mode marker tap or by a native-touch
\* hit, leaves both sequences one shorter with every other element kept, those
\* after i one index lower, so each point keeps its flag
C12_RemovalReindexes ==
    [][/\ \A i \in 1..Len(nodePoints) :
            (editMode /\ lastOp' = "removePoint" /\ onClickDot(i))
            => /\ ShiftedOut(nodePoints, nodePoints', i)
               /\ ShiftedOut(nodeActive, nodeActive', i)
       /\ (editMode /\ lastOp' = "touch" /\ Len(nodePoints') < Len(nodePoints))
          => \A tr \in TapInputs :
                (gesture'.tap = tr[1] /\ TouchStep(tr))
                => \E i \in NearSet(tr) :
                      /\ ShiftedOut(nodePoints, nodePoints', i)
                      /\ ShiftedOut(nodeActive, nodeActive', i)]_vars

\* C12 witness: a marker tap removed one of two nodes and the active one is
\* left, with its flag
C12_Witness ==
    /\ lastOp = "removePoint"
    /\ Len(nodePoints) = 1 /\ Len(nodeActive) = 1 /\ nodeActive[1]

\* C13: after a reset, whatever the length of the set was, the points
\* sequence and the active sequence are both empty
C13_ResetEmpties ==
    lastOp = "resetPoints" => (nodePoints = << >> /\ nodeActive = << >>)

\* C13 witness: a reset of a full set has left both sequences empty
C13_Witness ==
    /\ lastOp = "resetPoints" /\ gesture.len0 = MaxPoints
    /\ nodePoints = << >> /\ nodeActive = << >>

\* what a pointer event at tr does to the sequences when it is processed for
\* creation: one point appended when the tap maps into the unit square at
\* 0.03 or more from every point, no change otherwise
ProcessedForCreation(tr) ==
    IF farTap(tr[1], tr[2])
    THEN /\ Len(nodePoints') = Len(nodePoints) + 1
         /\ Len(nodeActive') = Len(nodeActive) + 1
    ELSE UNCHANGED <<nodePoints, nodeActive>>

\* C14 as stated: every edit-mode pointer event, on a marker or off it, is
\* discarded exactly when less than 600 ms have passed since the last
\* recorded native touch, and processed for creation otherwise
C14_PointerDiscardedIffRecent ==
    [][\A tr \in TapInputs, onDot \in BOOLEAN :
         (editMode /\ PointerStep(tr, onDot))
         => IF now - lastTouchRef < DedupWindow
            THEN UNCHANGED <<nodePoints, nodeActive>>
            ELSE ProcessedForCreation(tr)]_vars

\* C14, amended: an edit-mode pointer event whose target is not a marker is
\* discarded exactly when less than 600 ms have passed since the last recorded
\* native touch, and processed for creation at 600 ms or more; one whose
\* target is a marker is discarded at any time
C14_OffMarkerPointerDiscardedIffRecent ==
    [][(editMode /\ lastOp' = "pointer")
       => IF now - lastTouchRef < DedupWindow
          THEN UNCHANGED <<nodePoints, nodeActive>>
          ELSE \A tr \in TapInputs :
                 gesture'.tap = tr[1]
                 => /\ PointerStep(tr, FALSE) => ProcessedForCreation(tr)
                    /\ PointerStep(tr, TRUE) => UNCHANGED <<nodePoints, nodeActive>>]_vars

\* C14 witness: a pointer event exactly 600 ms after the recorded touch has
\* created a point
C14_Witness ==
    /\ lastOp = "pointer" /\ editMode
    /\ gesture.phase = "half" /\ gesture.first = "pointer"
    /\ lastTouchRef = T0 /\ now - lastTouchRef = DedupWindow
    /\ gesture.len1 = gesture.len0 + 1

\* C15: while edit mode is off, a native-touch start and a pointer-down on
\* the image change neither sequence, no balance and not the recorded
\* last-touch timestamp
C15_ViewModeSurfaceInert ==
    [][(~editMode /\ lastOp' \in {"touch", "pointer"})
       => UNCHANGED <<nodePoints, nodeActive, credits, lastTouchRef>>]_vars

\* C15 witness: a touch arrived in view mode, later than the recorded
\* timestamp, on a set that has a point
C15_Witness ==
    /\ lastOp = "touch" /\ ~editMode
    /\ Len(nodePoints) > 0
    /\ lastTouchRef = T0 /\ now > lastTouchRef

\* the normalized point a tap maps to
Mapped(tr) ==
    [x |-> Div(tr[1].x - tr[2].left, tr[2].width),
     y |-> Div(tr[1].y - tr[2].top, tr[2].height)]

\* C16: a creation, by the touch path or the pointer path, leaves the stored
\* sequences as they were with one element appended at the end, the mapped
\* point with flag false; nothing stored before is dropped, moved or changed
C16_CreationAppendsOne ==
    [][(lastOp' \in {"touch", "pointer"} /\ Len(nodePoints') > Len(nodePoints))
       => \A tr \in TapInputs :
            (gesture'.tap = tr[1] /\ (TouchStep(tr) \/ PointerStep(tr, FALSE)))
            => /\ nodePoints' = Append(nodePoints, Mapped(tr))
               /\ nodeActive' = Append(nodeActive, FALSE)]_vars

\* C16 witness: a touch has appended a second node behind an active one
C16_Witness ==
    /\ lastOp = "touch" /\ gesture.phase = "half"
    /\ gesture.len0 = 1 /\ gesture.len1 = 2
    /\ Len(nodePoints) = 2 /\ nodeActive = <<TRUE, FALSE>>

\* C17: when an edit-mode native-touch tap lies within 22 px of several
\* points, exactly one point is removed, and it is the one of lowest index
\* among them
C17_LowestIndexInRadiusRemoved ==
    [][(editMode /\ lastOp' = "touch" /\ Len(nodePoints) >= 2)
       => \A tr \in TapInputs :
            (gesture'.tap = tr[1] /\ Cardinality(NearSet(tr)) >= 2 /\ TouchStep(tr))
            => \E i \in NearSet(tr) :
                  /\ \A j \in NearSet(tr) : i <= j
                  /\ ShiftedOut(nodePoints, nodePoints', i)
                  /\ ShiftedOut(nodeActive, nodeActive', i)]_vars

\* C17 witness: with (0.52,0.52) at index 1 and (0.50,0.50) at index 2, both
\* within 22 px of a touch on the 100 px rectangle, the touch removed index 1,
\* the farther of the two
C17_Witness ==
    /\ lastOp = "touch" /\ gesture.phase = "half"
    /\ gesture.tap = [x |-> 1040, y |-> 1040] /\ gesture.far
    /\ gesture.len0 = 2 /\ gesture.len1 = 1
    /\ nodePoints = <<[x |-> Fin(50), y |-> Fin(50)]>>

\* C18: no step taken in edit mode (creation, removal by marker tap or touch
\* hit, reset) changes a balance, and a marker tap in edit mode removes its
\* node whatever the balances are
C18_EditModeLeavesLedger ==
    [][/\ editMode => credits' = credits
       /\ \A i \in 1..Len(nodePoints) :
            (editMode /\ lastOp' = "removePoint" /\ onClickDot(i))
            => Len(nodePoints') = Len(nodePoints) - 1]_vars

\* C18 witness: a marker tap removed a node while a balance was zero
C18_Witness ==
    /\ lastOp = "removePoint"
    /\ \E e \in DOMAIN credits : credits[e] = 0
    /\ Len(nodePoints) = MaxPoints - 1

\* C19: a view-mode marker tap on index i, allowed or denied, leaves the
\* points sequence as it is and the flag of every index other than i as it is
C19_ViewTapTouchesOnlyItsFlag ==
    [][\A i \in 1..Len(nodePoints) :
         (lastOp' = "toggleActive" /\ ViewTap(i))
         => /\ nodePoints' = nodePoints
            /\ Len(nodeActive') = Len(nodeActive)
            /\ \A j \in 1..Len(nodeActive) :
                  j # i => nodeActive'[j] = nodeActive[j]]_vars

\* C19 witness: with index 1 active, a tap on index 2 was denied for lack of
\* credits and both flags are as before
C19_Witness ==
    /\ lastOp = "toggleActive" /\ toast # ""
    /\ Len(nodePoints) = 2 /\ nodeActive = <<TRUE, FALSE>>

\* the (tap, rectangle) pairs whose rectangle has no width or no height
ZeroSizeInputs == { tr \in TapInputs : tr[2].width = 0 \/ tr[2].height = 0 }

\* C20: with a reference rectangle of zero width or zero height, an edit-mode
\* tap by the touch path or by the pointer path creates nothing and removes
\* nothing
C20_ZeroRectTapIgnored ==
    [][\A tr \in ZeroSizeInputs :
         (editMode /\ (TouchStep(tr) \/ \E onDot \in BOOLEAN : PointerStep(tr, onDot)))
         => UNCHANGED <<nodePoints, nodeActive>>]_vars
====
